---- MODULE Spec2Model ----
(***************************************************************************)
(* Model of spyderbat-event-forwarder/forwarder.go: state recovery         *)
(* (loadState), the query-window computation and the main polling loop,    *)
(* the per-record pipeline (dedup, decode, augment, validate, filter,      *)
(* linkback, emit) and the sink fan-out through io.MultiWriter.            *)
(*                                                                         *)
(* Time is in seconds.  Record bytes are modelled structurally: the raw    *)
(* line a record came from, what augmentation did to it, and how many      *)
(* linkback annotations were appended.  Two byte strings are equal exactly *)
(* when these structures are equal.                                        *)
(***************************************************************************)
EXTENDS Integers, Sequences, FiniteSets, TLC

(***************************************************************************)
(* Program constants.                                                      *)
(***************************************************************************)
requestDelay == 30
minQueryOverlap == 300
defaultLookback == 3600
maxLookback == 14400

(***************************************************************************)
(* Bounds of the model.  dedupCacheElements is 65536 * 10 in the source    *)
(* (forwarder.go:40); it is scaled down so that eviction happens.          *)
(***************************************************************************)
dedupCacheElements == 3

\* Queries issued and tokens scanned, taken together.
MaxWork == 4

\* Times the process is started again.
MaxRestarts == 1

\* Ticks of the refresh goroutine's ticker.
MaxRefreshes == 2

(***************************************************************************)
(* The instant the process is first started, and the record timestamps     *)
(* that occur in the data: older than the maximum lookback, between the    *)
(* lookback and the overlap band, and ahead of the clock.                  *)
(***************************************************************************)
T0 == 100000
TOld == T0 - 20000
TRecent == T0 - 1000
TFuture == T0 + 100000

\* Time that passes on top of the inter-cycle sleep (processing, a
\* suspended host): nothing, or more than the maximum lookback.
ExtraElapsed == {0, 20000}

\* A pause longer than the default lookback and shorter than the maximum.
LongPauses == {10000}

(***************************************************************************)
(* Raw lines the backend can return.  kind:                                *)
(*   "obj"     a JSON object with a decodable time field                   *)
(*   "badtime" well-formed JSON that json.Unmarshal cannot decode into the *)
(*             record struct: an object whose time field is no time, or a  *)
(*             value that is no object (for example [1,2])                 *)
(*   "garbage" bytes that are not JSON                                     *)
(* toks is the set of filter patterns the text of the line matches.        *)
(***************************************************************************)
LineNames == 1..5

LineKind(n) ==
  CASE n = 1 -> "obj"
    [] n = 2 -> "obj"
    [] n = 3 -> "obj"
    [] n = 4 -> "badtime"
    [] OTHER -> "garbage"

LineTime(n) ==
  CASE n = 1 -> TOld
    [] n = 2 -> TRecent
    [] n = 3 -> TFuture
    [] OTHER -> 0

LineToks(n) ==
  CASE n = 1 -> {"A"}
    [] n = 2 -> {"A", "B"}
    [] n = 3 -> {}
    [] n = 4 -> {"A"}
    [] OTHER -> {"A"}

\* the raw line already carries a non-empty linkback field
LineHasLinkback(n) == n = 3

(***************************************************************************)
(* Byte strings.  src: the raw line; aug: "raw" (as received), "enriched"  *)
(* (augmentation added runtime_details), "broken" (augmentation left bytes *)
(* that are not JSON); lb: number of appended linkback annotations;        *)
(* mangled: the bytes were overwritten in the scanner's buffer; torn: the  *)
(* line was cut short on disk.                                             *)
(***************************************************************************)
Bytes(n, a, k, m, t) == [src |-> n, aug |-> a, lb |-> k, mangled |-> m, torn |-> t]

Raw(n) == Bytes(n, "raw", 0, FALSE, FALSE)

Mangled(n) == Bytes(n, "raw", 0, TRUE, FALSE)

\* blake2b.Sum256: equal digests exactly for equal bytes.
Sum256(b) == <<"blake2b", b>>

\* json.Unmarshal(b, record) == nil
UnmarshalOK(b) ==
  /\ ~b.mangled
  /\ ~b.torn
  /\ b.aug # "broken"
  /\ LineKind(b.src) = "obj"

\* record.Time after a successful json.Unmarshal
DecodedTime(b) == LineTime(b.src)

\* fastjson.ValidateBytes(b) == nil
ValidateOK(b) ==
  /\ ~b.mangled
  /\ ~b.torn
  /\ b.aug # "broken"
  /\ LineKind(b.src) # "garbage"

\* regexp.MatchString on the text of the record
MatchString(p, b) == p \in LineToks(b.src)

\* fastjson.GetString(record, "linkback") != "": the line came with a
\* linkback field, or an annotation has been appended
HasLinkback(b) == ValidateOK(b) /\ (LineHasLinkback(b.src) \/ b.lb > 0)

(***************************************************************************)
(* lru.Cache of github.com/golang/groupcache/lru, as forwarder.go uses it: *)
(* the sequence of keys, most recently used first.                         *)
(***************************************************************************)
Range(s) == {s[i] : i \in 1..Len(s)}

Without(s, k) == SelectSeq(s, LAMBDA x : x # k)

MoveToFront(s, k) == <<k>> \o Without(s, k)

\* lruCache.Get(k): whether k is present
LruHit(c, k) == k \in Range(c)

\* LruGet leaving the order alone on a hit
LruGetNoTouch(c, k) == c

\* lruCache.Get(k): the cache afterwards (a hit moves k to the front)
LruGet(c, k) == IF k \in Range(c) THEN MoveToFront(c, k) ELSE c

\* RemoveOldest, applied by Add when the list is longer than MaxEntries
LruTrim(c) == IF Len(c) > dedupCacheElements THEN SubSeq(c, 1, Len(c) - 1) ELSE c

\* lruCache.Add(k, nil)
LruAdd(c, k) == IF k \in Range(c) THEN MoveToFront(c, k) ELSE LruTrim(<<k>> \o c)

(***************************************************************************)
(* Paths: abs says whether the path starts with a separator, comps are its *)
(* components.                                                             *)
(***************************************************************************)
Path(a, c) == [abs |-> a, comps |-> c]

\* filepath.Clean, for paths without ".." components
Clean(p) ==
  LET c == SelectSeq(p.comps, LAMBDA x : x # "." /\ x # "")
  IN  IF c = <<>> /\ ~p.abs THEN Path(FALSE, <<".">>) ELSE Path(p.abs, c)

\* d.Name() of the entry os.Lstat returns for the walk's root
BaseName(p) == IF p.comps = <<>> THEN Path(p.abs, <<>>) ELSE Path(FALSE, <<p.comps[Len(p.comps)]>>)

\* d.Type().IsDir() && d.Name() != LogPath, for the root of the walk
RootSkipped(logPath) == BaseName(logPath) # logPath

\* os.Open(name) resolves the bare name against the working directory,
\* which holds the output files only when LogPath is "."
OpenResolves(logPath) == logPath = Path(FALSE, <<".">>)

\* strings.HasPrefix(name, "spyderbat_events") && strings.HasSuffix(name, ".log")
\* for names given as <<stem, rest, extension>>
NameMatches(name) == name[1] = "spyderbat_events" /\ name[3] = ".log"

(***************************************************************************)
(* The query window, forwarder.go:222-239.                                 *)
(***************************************************************************)
\* RecordTime.Time()
RecordTimeToTime(t) == t

\* lines 225-227
BaseStart(lt, prevSt) == IF lt > 0 THEN RecordTimeToTime(lt) ELSE prevSt

\* lines 230-233
ClampOverlap(s, e) == IF s > e - minQueryOverlap THEN e - minQueryOverlap ELSE s

\* ClampLookback without the lookback limit
ClampLookbackOff(s, e) == s

\* ClampLookback limiting the window to the overlap band
ClampLookbackShort(s, e) == IF s < e - minQueryOverlap THEN e - minQueryOverlap ELSE s

\* lines 236-239
ClampLookback(s, e) == IF s < e - maxLookback THEN e - maxLookback ELSE s

\* InitialStart taking the start instant itself
InitialStartNow(t) == t

\* line 209: the window start before the first cycle
InitialStart(t) == t - defaultLookback

WindowStart(lt, prevSt, e) == ClampLookback(ClampOverlap(BaseStart(lt, prevSt), e), e)

(***************************************************************************)
(* The per-record pipeline, forwarder.go:253-297, as functions of the      *)
(* scanned token.                                                          *)
(***************************************************************************)
\* sapi.AugmentRuntimeDetailsJSON(&record): out is what the backend client
\* did, "raw" (nothing), "enriched" or "broken"
Augment(b, out) == [b EXCEPT !.aug = out]

\* addLinkback, lines 115-121: one more "linkback" member before the brace
addLinkback(b) == [b EXCEPT !.lb = @ + 1]

\* lines 283-285 and 290-292
Annotate(b, linkback) == IF linkback \/ HasLinkback(b) THEN addLinkback(b) ELSE b

\* lines 281-288: the lines printed for patterns i.. of reg; s is the text
\* matched against, rec the record as annotated so far
RECURSIVE PrintFiltered(_, _, _, _, _)
PrintFiltered(reg, i, s, rec, linkback) ==
  IF i > Len(reg) THEN <<>>
  ELSE IF MatchString(reg[i], s)
       THEN <<Annotate(rec, linkback)>>
              \o PrintFiltered(reg, i + 1, s, Annotate(rec, linkback), linkback)
       ELSE PrintFiltered(reg, i + 1, s, rec, linkback)

\* lines 278-294: the lines handed to eventLog.Print for a validated record
PrintsOfValid(rec, reg, linkback) ==
  IF Len(reg) > 0 THEN PrintFiltered(reg, 1, rec, rec, linkback)
  ELSE <<Annotate(rec, linkback)>>

\* lines 262-297 for a token that was not found in the cache: the lines
\* printed to the event log
PrintsOfNew(tok, out, reg, linkback) ==
  IF ~UnmarshalOK(tok) THEN <<>>
  ELSE IF ValidateOK(Augment(tok, out)) THEN PrintsOfValid(Augment(tok, out), reg, linkback)
  ELSE <<>>

\* lines 295-297: the number of "invalid record" entries written to the log
InvalidLogsOfNew(tok, out) ==
  IF ~UnmarshalOK(tok) THEN 0
  ELSE IF ValidateOK(Augment(tok, out)) THEN 0
  ELSE 1

\* RatchetTime storing every decoded time, also an older one
RatchetTimeAssign(lt, tok) == IF UnmarshalOK(tok) THEN DecodedTime(tok) ELSE lt

\* lines 262-269: the tracked timestamp after a token not found in the cache
RatchetTime(lt, tok) ==
  IF UnmarshalOK(tok) /\ DecodedTime(tok) > lt THEN DecodedTime(tok) ELSE lt

(***************************************************************************)
(* io.MultiWriter(logWriters...).Write: the writers are tried in order and *)
(* the first error ends the write.  fails is the set of writers whose      *)
(* Write returns an error.                                                 *)
(***************************************************************************)
RECURSIVE MultiWrite(_, _, _)
MultiWrite(writers, i, fails) ==
  IF i > Len(writers) THEN {}
  ELSE IF writers[i] \in fails THEN {}
  ELSE {writers[i]} \cup MultiWrite(writers, i + 1, fails)

\* the writers that received the line
Delivered(writers, fails) == MultiWrite(writers, 1, fails)

\* lines 155-185
LogWriters(stdOut, syslogOK) ==
  <<"file">> \o (IF stdOut THEN <<"stdout">> ELSE <<>>)
             \o (IF syslogOK THEN <<"syslog">> ELSE <<>>)

(***************************************************************************)
(* State.                                                                  *)
(***************************************************************************)
VARIABLES
  cfg,         \* the loaded configuration
  badSink,     \* the sink whose writes fail (disk full, closed pipe, no syslog), or "none"
  dir,         \* the log directory: "ok", "missing" or "unreadable"
  files,       \* the lines of the output files on disk
  now,         \* the wall clock
  pc,          \* where the process is
  walkIdx,     \* loadState: the directory entry the walk is at
  linePos,     \* loadState: the next line of the file being scanned
  loadErr,     \* whether loadState returned an error
  lruCache,    \* the dedup cache, most recently used first
  lastTime,    \* the tracked last-seen record time, 0 when unset
  logWriters,  \* the destinations of the event log, in order
  st,          \* start of the query window
  et,          \* end of the query window
  startingUp,  \* the first cycle has not begun
  clobber,     \* addLinkback overwrote the scanner's buffer after the token
  work,        \* queries and scanned tokens so far, over all starts
  restarts,    \* times the process was started again
  loaded,      \* history: the files loadState scanned to their end
  ioFault,     \* history: the file system failed an open or a read during loadState
  before,      \* history: the raw lines with output on disk when the process was started again
  used,        \* history: every digest looked up or inserted, most recent use first
  delivered,   \* history: per raw line, times its bytes were scanned
  again,       \* history: per raw line, times they were scanned while their digest was
               \*          among the dedupCacheElements most recently used
  printed,     \* history: per raw line, calls of eventLog.Print for it
  ev,          \* history: what the last step of the main loop did
  queries,     \* history: queries issued by this process
  sleeps,      \* history: calls of time.Sleep by this process
  prevEt,      \* history: end of the window of the query before the last one, 0 for none
  late,        \* history: a record carried a time later than the end of its window
  refreshPc,   \* the refresh goroutine: "off", "waiting" on its ticker or "exited"
  refreshes,   \* history: refreshes the goroutine made
  refreshErr   \* history: the last refresh of the goroutine failed

vars == <<cfg, badSink, dir, files, now, pc, walkIdx, linePos, loadErr, lruCache, lastTime,
          logWriters, st, et, startingUp, clobber, work, restarts,
          loaded, ioFault, before, used, delivered, again, printed, ev,
          queries, sleeps, prevEt, late, refreshPc, refreshes, refreshErr>>

\* the history of the loop's queries and sleeps
loopHist == <<queries, sleeps, prevEt>>

\* the state of the refresh goroutine, lines 192-203
refreshVars == <<refreshPc, refreshes, refreshErr>>

\* the directory entries in the order WalkDir visits them (lexical); file
\* is the key into files, "" for an entry that is no output file
Entries ==
  << [name |-> <<"archive", "", "">>, isDir |-> TRUE, file |-> ""],
     [name |-> <<"notes", "", ".txt">>, isDir |-> FALSE, file |-> ""],
     [name |-> <<"spyderbat_events", "-2023-01-01T00-00-00.000", ".log">>, isDir |-> FALSE, file |-> "rotated"],
     [name |-> <<"spyderbat_events", "", ".log">>, isDir |-> FALSE, file |-> "live"] >>

Rotated == "rotated"
Live == "live"

\* an output file exists once it holds a line
EntryExists(e, f) == e.file = "" \/ f[e.file] # <<>>

LogPaths ==
  { Path(FALSE, <<".">>), Path(FALSE, <<".", "logs">>), Path(TRUE, <<"var", "log", "spyderbat">>) }

Filters == { <<>>, <<"A">>, <<"A", "B">> }

Configs ==
  [ LogPath : LogPaths, StdOut : BOOLEAN, LocalSyslogForwarding : BOOLEAN,
    Linkback : BOOLEAN, FilterExpression : Filters ]

PlainSinks(c) == ~c.StdOut /\ ~c.LocalSyslogForwarding

PlainPipeline(c) == ~c.Linkback /\ c.FilterExpression = <<>>

HomeDir(c) == c.LogPath = Path(FALSE, <<".">>)

\* the sinks the configuration asks for
Wanted(c) ==
  {"file"} \cup (IF c.StdOut THEN {"stdout"} ELSE {})
           \cup (IF c.LocalSyslogForwarding THEN {"syslog"} ELSE {})

\* what earlier runs left on disk: nothing; lines with decreasing times and
\* a last line cut short; an enriched line
Torn(b) == [b EXCEPT !.torn = TRUE]

DiskChoices ==
  { [f \in {Rotated, Live} |-> <<>>],
    [f \in {Rotated, Live} |->
       IF f = Rotated THEN <<Raw(2), Raw(1), Torn(Raw(3))>> ELSE <<Bytes(3, "raw", 1, FALSE, FALSE)>>],
    [f \in {Rotated, Live} |->
       IF f = Rotated THEN <<Bytes(1, "enriched", 0, FALSE, FALSE)>> ELSE <<>>] }

NoEv == [kind |-> "none"]

ZeroCount == [n \in LineNames |-> 0]

\* the state of a process that has just loaded its configuration, 123-147
Started ==
  /\ pc = "loadState"
  /\ walkIdx = 0
  /\ linePos = 0
  /\ loadErr = FALSE
  /\ lruCache = <<>>
  /\ lastTime = 0
  /\ logWriters = <<>>
  /\ st = 0
  /\ et = 0
  /\ startingUp = TRUE
  /\ clobber = FALSE
  /\ loaded = {}
  /\ ioFault = FALSE
  /\ used = <<>>
  /\ delivered = ZeroCount
  /\ again = ZeroCount
  /\ printed = ZeroCount
  /\ ev = NoEv
  /\ queries = 0
  /\ sleeps = 0
  /\ prevEt = 0
  /\ late = FALSE
  /\ refreshPc = "off"
  /\ refreshes = 0
  /\ refreshErr = FALSE

EmptyDisk == [f \in {Rotated, Live} |-> <<>>]

\* One life of the process, started in its log directory: every filter and
\* linkback setting over each disk, and every combination of sinks with
\* each of them failing.
Init ==
  /\ cfg \in Configs
  /\ HomeDir(cfg)
  /\ dir = "ok"
  /\ files \in DiskChoices
  /\ badSink \in {"none"} \cup Wanted(cfg)
  /\ \/ PlainSinks(cfg) /\ badSink = "none"
     \/ PlainPipeline(cfg) /\ files = EmptyDisk
  /\ now = T0
  /\ restarts = 0
  /\ before = {}
  /\ work = 0
  /\ Started

\* Startup under every log path, directory state and disk.
InitStartup ==
  /\ cfg \in Configs
  /\ PlainSinks(cfg)
  /\ PlainPipeline(cfg)
  /\ dir \in {"ok", "missing", "unreadable"}
  /\ files \in DiskChoices
  /\ dir = "missing" => files = EmptyDisk
  /\ badSink = "none"
  /\ now = T0
  /\ restarts = 0
  /\ before = {}
  /\ work = 0
  /\ Started

\* A process that is stopped and started again over its own output.
InitRestart ==
  /\ cfg \in Configs
  /\ HomeDir(cfg)
  /\ PlainSinks(cfg)
  /\ cfg.FilterExpression = <<>>
  /\ dir = "ok"
  /\ files = EmptyDisk
  /\ badSink = "none"
  /\ now = T0
  /\ restarts = 0
  /\ before = {}
  /\ work = 0
  /\ Started

(***************************************************************************)
(* loadState, forwarder.go:49-88.                                          *)
(***************************************************************************)
\* loadState returns (0, err), lines 84-86
ReturnError ==
  /\ lastTime' = 0
  /\ loadErr' = TRUE
  /\ pc' = "main"

\* loadState returns (lastTime, nil), line 87
ReturnOK ==
  /\ lastTime' = lastTime
  /\ loadErr' = FALSE
  /\ pc' = "main"

\* filepath.WalkDir calls the function for the root.  With no entry for the
\* root (os.Lstat failed) d is nil and d.Type() at line 54 panics.
WalkRoot ==
  /\ pc = "loadState"
  /\ IF dir = "missing"
       THEN pc' = "panicked" /\ UNCHANGED <<lastTime, loadErr, walkIdx>>
     ELSE IF RootSkipped(Clean(cfg.LogPath))
       THEN ReturnOK /\ UNCHANGED walkIdx
     ELSE IF dir = "unreadable"
       THEN ReturnError /\ UNCHANGED walkIdx
     ELSE pc' = "walk" /\ walkIdx' = 1 /\ UNCHANGED <<lastTime, loadErr>>
  /\ UNCHANGED <<loopHist, late, refreshVars, cfg, badSink, dir, files, now, linePos, lruCache, logWriters, st, et, startingUp,
                 clobber, work, restarts, loaded, ioFault, before, used, delivered, again, printed, ev>>

\* lines 54-56: a directory whose name differs from LogPath is not entered
EntrySkipped(e, logPath) == e.isDir /\ Path(FALSE, <<e.name[1]>>) # logPath

\* line 61: a regular file with the output files' prefix and suffix
EntryOpened(e) == ~e.isDir /\ NameMatches(e.name)

\* the function is called for one entry of the directory
WalkEntry ==
  /\ pc = "walk"
  /\ walkIdx <= Len(Entries)
  /\ LET e == Entries[walkIdx]
     IN  IF ~EntryExists(e, files) \/ EntrySkipped(e, Clean(cfg.LogPath)) \/ ~EntryOpened(e)
           THEN /\ walkIdx' = walkIdx + 1
                /\ UNCHANGED <<pc, linePos, lastTime, loadErr, ioFault>>
         ELSE \E openOK \in BOOLEAN :
                /\ ioFault' = (ioFault \/ ~openOK)
                /\ IF openOK /\ OpenResolves(Clean(cfg.LogPath))
                     THEN /\ pc' = "scanFile"
                          /\ linePos' = 1
                          /\ UNCHANGED <<walkIdx, lastTime, loadErr>>
                   ELSE ReturnError /\ UNCHANGED <<walkIdx, linePos>>
  /\ UNCHANGED <<loopHist, late, refreshVars, cfg, badSink, dir, files, now, lruCache, logWriters, st, et, startingUp,
                 clobber, work, restarts, loaded, before, used, delivered, again, printed, ev>>

\* lines 71-75
LoadTime(lt, b) == IF UnmarshalOK(b) /\ DecodedTime(b) > lt THEN DecodedTime(b) ELSE lt

\* lines 69-77: one line of the open file
LoadLine ==
  /\ pc = "scanFile"
  /\ linePos <= Len(files[Entries[walkIdx].file])
  /\ LET b == files[Entries[walkIdx].file][linePos]
     IN  /\ lastTime' = LoadTime(lastTime, b)
         /\ lruCache' = LruAdd(lruCache, Sum256(b))
         /\ used' = MoveToFront(used, Sum256(b))
         /\ late' = (late \/ (UnmarshalOK(b) /\ DecodedTime(b) > now))
  /\ linePos' = linePos + 1
  /\ UNCHANGED <<loopHist, refreshVars, cfg, badSink, dir, files, now, pc, walkIdx, loadErr, logWriters, st, et, startingUp,
                 clobber, work, restarts, loaded, ioFault, before, delivered, again, printed, ev>>

\* lines 78-80: the scanner stopped on an error (a read error, a line
\* longer than the scanner's buffer)
LoadScanError ==
  /\ pc = "scanFile"
  /\ ReturnError
  /\ ioFault' = TRUE
  /\ UNCHANGED <<loopHist, late, refreshVars, cfg, badSink, dir, files, now, walkIdx, linePos, lruCache, logWriters, st, et, startingUp,
                 clobber, work, restarts, loaded, before, used, delivered, again, printed, ev>>

\* lines 69, 78, 82: the scanner reached the end of the file
LoadEOF ==
  /\ pc = "scanFile"
  /\ linePos > Len(files[Entries[walkIdx].file])
  /\ loaded' = loaded \cup {Entries[walkIdx].file}
  /\ walkIdx' = walkIdx + 1
  /\ pc' = "walk"
  /\ UNCHANGED <<loopHist, late, refreshVars, cfg, badSink, dir, files, now, linePos, loadErr, lruCache, lastTime, logWriters, st, et,
                 startingUp, clobber, work, restarts, ioFault, before, used, delivered, again, printed, ev>>

\* the walk has visited every entry
WalkDone ==
  /\ pc = "walk"
  /\ walkIdx > Len(Entries)
  /\ ReturnOK
  /\ UNCHANGED <<loopHist, late, refreshVars, cfg, badSink, dir, files, now, walkIdx, linePos, lruCache, logWriters, st, et, startingUp,
                 clobber, work, restarts, loaded, ioFault, before, used, delivered, again, printed, ev>>

(***************************************************************************)
(* main, forwarder.go:149-211: the error of loadState is logged, the sinks *)
(* are set up and the first window start is taken.                         *)
(***************************************************************************)
MainSetup ==
  /\ pc = "main"
  /\ \E syslogOK \in BOOLEAN :
       /\ syslogOK => cfg.LocalSyslogForwarding
       /\ logWriters' = LogWriters(cfg.StdOut, syslogOK)
  /\ st' = InitialStart(now)
  /\ startingUp' = TRUE
  /\ pc' = "top"
  /\ refreshPc' = "waiting"
  /\ UNCHANGED <<loopHist, late, refreshes, refreshErr, cfg, badSink, dir, files, now, walkIdx, linePos, loadErr, lruCache, lastTime, et,
                 clobber, work, restarts, loaded, ioFault, before, used, delivered, again, printed, ev>>

(***************************************************************************)
(* The main loop, forwarder.go:213-307.                                    *)
(***************************************************************************)
\* StartingUpAfter leaving the flag as it was
StartingUpKept(flag) == flag

\* line 217: the flag is cleared in every iteration
StartingUpAfter(flag) == FALSE

\* lines 214-217, first cycle: no sleep
FirstCycle ==
  /\ pc = "top"
  /\ startingUp
  /\ startingUp' = StartingUpAfter(startingUp)
  /\ pc' = "query"
  /\ UNCHANGED <<loopHist, late, refreshVars, cfg, badSink, dir, files, now, walkIdx, linePos, loadErr, lruCache, lastTime, logWriters,
                 st, et, clobber, work, restarts, loaded, ioFault, before, used, delivered, again, printed, ev>>

\* lines 214-217, later cycles: time.Sleep(requestDelay); D is the time
\* that may pass on top of the delay
Sleep(D) ==
  /\ pc = "top"
  /\ ~startingUp
  /\ work < MaxWork
  /\ \E d \in D : now' = now + requestDelay + d
  /\ startingUp' = StartingUpAfter(startingUp)
  /\ pc' = "query"
  /\ sleeps' = sleeps + 1
  /\ UNCHANGED <<queries, prevEt, late, refreshVars, cfg, badSink, dir, files, walkIdx, linePos, loadErr, lruCache, lastTime, logWriters,
                 st, et, clobber, work, restarts, loaded, ioFault, before, used, delivered, again, printed, ev>>

SleepStep == Sleep(ExtraElapsed)

\* the sleep of a host that is suspended for a while
SleepPaused == Sleep(LongPauses)

\* AfterQuery going on to the stream whatever the query returned
AfterQueryScan(ok) == "scan"

\* lines 241-245: an error of the query ends the cycle
AfterQuery(ok) == IF ok THEN "scan" ELSE "top"

\* lines 222-245: the window is computed and the backend is queried
QueryStep ==
  /\ pc = "query"
  /\ work < MaxWork
  /\ et' = now
  /\ st' = WindowStart(lastTime, st, now)
  /\ work' = work + 1
  /\ clobber' = FALSE
  /\ \E ok \in BOOLEAN :
       /\ pc' = AfterQuery(ok)
       /\ ev' = [kind |-> "query", ok |-> ok]
  /\ queries' = queries + 1
  /\ prevEt' = et
  /\ UNCHANGED <<sleeps, late, refreshVars, cfg, badSink, dir, files, now, walkIdx, linePos, loadErr, lruCache, lastTime, logWriters,
                 startingUp, restarts, loaded, ioFault, before, used, delivered, again, printed>>

Min(a, b) == IF a < b THEN a ELSE b

\* CacheAfter without the insertion of line 259
CacheAfterNoInsert(c, k) == LruGet(c, k)

\* the cache after lines 255-260 for digest k
CacheAfter(c, k) == IF LruHit(c, k) THEN LruGet(c, k) ELSE LruAdd(LruGet(c, k), k)

\* the lines a printed sequence adds to the output file
RECURSIVE AppendAll(_, _)
AppendAll(f, prints) == IF prints = <<>> THEN f ELSE AppendAll(Append(f, Head(prints)), Tail(prints))

\* lines 251-298: one token of the response stream goes through the
\* pipeline.  n is the line the backend sent, out what augmentation does,
\* buffered whether the bytes after the token were already in the
\* scanner's buffer when addLinkback appended to the token in place.
ScanLine ==
  /\ pc = "scan"
  /\ work < MaxWork
  /\ \E n \in LineNames, out \in {"raw", "enriched", "broken"}, buffered \in BOOLEAN :
       LET tok == IF clobber THEN Mangled(n) ELSE Raw(n)
           sum == Sum256(tok)
           dup == LruHit(lruCache, sum)
           decoded == ~dup /\ UnmarshalOK(tok)
           prints == IF dup THEN <<>>
                     ELSE PrintsOfNew(tok, out, cfg.FilterExpression, cfg.Linkback)
           invalid == IF dup THEN 0 ELSE InvalidLogsOfNew(tok, out)
           annotated == prints # <<>> /\ prints[1].lb > 0
           fails == {badSink} \cap Range(logWriters)
           got == Delivered(logWriters, fails)
           recent == sum \in Range(SubSeq(used, 1, Min(Len(used), dedupCacheElements)))
       IN  /\ ~decoded => out = "raw"
           /\ buffered => (annotated /\ out = "raw")
           /\ lruCache' = CacheAfter(lruCache, sum)
           /\ lastTime' = IF dup THEN lastTime ELSE RatchetTime(lastTime, tok)
           /\ files' = IF "file" \in got
                         THEN [files EXCEPT ![Live] = AppendAll(@, prints)]
                       ELSE files
           /\ clobber' = buffered
           /\ late' = (late \/ (decoded /\ DecodedTime(tok) > et))
           /\ used' = MoveToFront(used, sum)
           /\ delivered' = IF clobber THEN delivered ELSE [delivered EXCEPT ![n] = @ + 1]
           /\ again' = IF ~clobber /\ recent THEN [again EXCEPT ![n] = @ + 1] ELSE again
           /\ printed' = [printed EXCEPT ![n] = @ + Len(prints)]
           /\ ev' = [kind |-> "line", tok |-> tok, dup |-> dup, recent |-> recent, out |-> out,
                     prints |-> prints, invalid |-> invalid, fails |-> fails, got |-> got]
  /\ work' = work + 1
  /\ UNCHANGED <<loopHist, refreshVars, cfg, badSink, dir, now, pc, walkIdx, linePos, loadErr, logWriters, st, et, startingUp,
                 restarts, loaded, ioFault, before>>

\* AfterStream ending the process on a read error
AfterStreamFatal(err) == IF err THEN "halted" ELSE "top"

\* lines 299-307: a read error of the stream is logged and the loop goes on
AfterStream(err) == "top"

\* lines 251, 299-306: the scanner stops, at the end of the stream or on a
\* read error; the stream is closed and the cycle ends
EndStream ==
  /\ pc = "scan"
  /\ \E err \in BOOLEAN :
       /\ ev' = [kind |-> "end", err |-> err]
       /\ pc' = AfterStream(err)
  /\ clobber' = FALSE
  /\ UNCHANGED <<loopHist, late, refreshVars, cfg, badSink, dir, files, now, walkIdx, linePos, loadErr, lruCache, lastTime, logWriters,
                 st, et, startingUp, work, restarts, loaded, ioFault, before, used, delivered, again, printed>>

(***************************************************************************)
(* The process stops (it is killed between cycles, or it has panicked) and *)
(* is started again with the same configuration; the disk keeps its files. *)
(***************************************************************************)
Restart ==
  /\ pc \in {"top", "panicked"}
  /\ restarts < MaxRestarts
  /\ restarts' = restarts + 1
  /\ pc' = "loadState"
  /\ walkIdx' = 0
  /\ linePos' = 0
  /\ loadErr' = FALSE
  /\ lruCache' = <<>>
  /\ lastTime' = 0
  /\ logWriters' = <<>>
  /\ st' = 0
  /\ et' = 0
  /\ startingUp' = TRUE
  /\ clobber' = FALSE
  /\ loaded' = {}
  /\ ioFault' = FALSE
  /\ before' = {files[Live][i].src : i \in 1..Len(files[Live])}
  /\ used' = <<>>
  /\ delivered' = ZeroCount
  /\ again' = ZeroCount
  /\ printed' = ZeroCount
  /\ ev' = NoEv
  /\ queries' = 0
  /\ sleeps' = 0
  /\ prevEt' = 0
  /\ late' = FALSE
  /\ refreshPc' = "off"
  /\ refreshes' = 0
  /\ refreshErr' = FALSE
  /\ UNCHANGED <<cfg, badSink, dir, files, now, work>>

(***************************************************************************)
(* The refresh goroutine, forwarder.go:192-203: on every tick of its       *)
(* ticker it refreshes the sources of the backend client and logs the      *)
(* outcome.  Its err is a variable of its own (line 196).                  *)
(***************************************************************************)
\* RefreshLoopAfter leaving the loop on a failed refresh
RefreshLoopAfterExit(ok) == IF ok THEN "waiting" ELSE "exited"

\* lines 194-202: the loop waits for the next tick whatever the outcome
RefreshLoopAfter(ok) == "waiting"

RefreshTick ==
  /\ refreshPc = "waiting"
  /\ refreshes < MaxRefreshes
  /\ refreshes' = refreshes + 1
  /\ \E ok \in BOOLEAN :
       /\ refreshErr' = ~ok
       /\ refreshPc' = RefreshLoopAfter(ok)
  /\ UNCHANGED <<loopHist, late, cfg, badSink, dir, files, now, pc, walkIdx, linePos, loadErr, lruCache,
                 lastTime, logWriters, st, et, startingUp, clobber, work, restarts, loaded, ioFault,
                 before, used, delivered, again, printed, ev>>

\* one life of the process
Next ==
  \/ WalkRoot
  \/ WalkEntry
  \/ LoadLine
  \/ LoadScanError
  \/ LoadEOF
  \/ WalkDone
  \/ MainSetup
  \/ FirstCycle
  \/ SleepStep
  \/ QueryStep
  \/ ScanLine
  \/ EndStream

Spec == Init /\ [][Next]_vars

\* startup, up to the first query
NextStartup ==
  \/ WalkRoot
  \/ WalkEntry
  \/ LoadLine
  \/ LoadScanError
  \/ LoadEOF
  \/ WalkDone
  \/ MainSetup
  \/ FirstCycle
  \/ QueryStep

SpecStartup == InitStartup /\ [][NextStartup]_vars

\* the process and its restarts
NextRestart == Next \/ Restart

SpecRestart == InitRestart /\ [][NextRestart]_vars

\* A process with the plain pipeline and the file sink, over each disk.
InitLive ==
  /\ cfg \in Configs
  /\ HomeDir(cfg)
  /\ PlainSinks(cfg)
  /\ PlainPipeline(cfg)
  /\ dir = "ok"
  /\ files \in DiskChoices
  /\ badSink = "none"
  /\ now = T0
  /\ restarts = 0
  /\ before = {}
  /\ work = 0
  /\ Started

\* The loop of a process with the plain pipeline, with short, long and
\* over-long pauses between its queries.
NextWindow == Next \/ SleepPaused

SpecWindow == InitLive /\ [][NextWindow]_vars

\* The main loop and the refresh goroutine, interleaved in every order,
\* over the disk that holds both output files.
InitRefresh ==
  /\ cfg \in Configs
  /\ HomeDir(cfg)
  /\ PlainSinks(cfg)
  /\ PlainPipeline(cfg)
  /\ dir = "ok"
  /\ files \in DiskChoices
  /\ files[Live] # <<>>
  /\ badSink = "none"
  /\ now = T0
  /\ restarts = 0
  /\ before = {}
  /\ work = 0
  /\ Started

NextRefresh == Next \/ RefreshTick

SpecRefresh == InitRefresh /\ [][NextRefresh]_vars

\* The process over that disk under the scheduling the loop relies on:
\* time.Sleep returns, the query returns, and the response stream ends or
\* fails.
SpecLive ==
  /\ InitRefresh
  /\ [][Next]_vars
  /\ WF_vars(SleepStep)
  /\ WF_vars(QueryStep)
  /\ WF_vars(EndStream)

(***************************************************************************)
(* Properties.                                                             *)
(***************************************************************************)
\* a query has been issued by this process (the clock is never 0)
Queried == et # 0

\* C1: in every cycle the window handed to the backend query satisfies
\* minQueryOverlap <= end - start <= maxLookback, whatever the tracked
\* timestamp and the elapsed time, and its end is the instant read at the
\* start of the cycle (the clock does not move until the next sleep).
C1_WindowBounds ==
  Queried =>
    /\ minQueryOverlap <= et - st
    /\ et - st <= maxLookback
    /\ pc \in {"scan", "top"} => et = now

\* C1 witness: a later cycle queried with the tracked timestamp ahead of
\* the clock, and the window was cut to the overlap band
C1_Witness ==
  /\ Queried
  /\ now > T0
  /\ pc = "scan"
  /\ lastTime > now
  /\ et - st = minQueryOverlap

MainLoop == {"main", "top", "query", "scan"}

\* C5: once loadState has returned, no step of the process makes the
\* tracked last-seen timestamp smaller.
C5_LastTimeMonotone ==
  [][(pc \in MainLoop /\ pc' \in MainLoop) => lastTime' >= lastTime]_vars

\* C5 witness: a new record that decodes to an older time went through the
\* pipeline and the tracked timestamp stayed ahead of it
C5_Witness ==
  /\ ev.kind = "line"
  /\ ~ev.dup
  /\ UnmarshalOK(ev.tok)
  /\ DecodedTime(ev.tok) < lastTime

\* the dedupCacheElements most recently used digests
RecentlyUsed == Range(SubSeq(used, 1, Min(Len(used), dedupCacheElements)))

\* C10: the cache never holds more than its capacity, it holds exactly the
\* digests used most recently (an insert and a lookup hit both count as a
\* use), and a lookup hits exactly for those.
C10_LruPresence ==
  /\ Len(lruCache) <= dedupCacheElements
  /\ Range(lruCache) = RecentlyUsed
  /\ ev.kind = "line" => (ev.dup <=> ev.recent)

\* C10 witness: the cache was full, a lookup hit refreshed one digest, and
\* a later insert evicted another one: a digest read from the rotated file
\* is gone while the one that was hit is still present
C10_Witness ==
  /\ ev.kind = "line"
  /\ ~ev.dup
  /\ Len(used) > dedupCacheElements
  /\ Rotated \in loaded
  /\ \E n \in LineNames :
       /\ again[n] >= 1
       /\ Sum256(Raw(n)) \in Range(lruCache)
       /\ \E i \in 1..Len(files[Rotated]) :
            /\ files[Rotated][i] = Raw(n)
            /\ \E j \in (i + 1)..Len(files[Rotated]) :
                 Sum256(files[Rotated][j]) \notin Range(lruCache)

\* the lines printed for a new record from raw line n that decodes and
\* validates: one without a filter, one per matching pattern with one
Expected(n) == Len(PrintsOfValid(Raw(n), cfg.FilterExpression, cfg.Linkback))

\* C2 as stated, for the records most favourable to it (JSON objects that
\* decode): a record whose bytes were delivered twice has been forwarded
\* exactly once in total.
C2_OnceInTotal ==
  \A n \in LineNames : (LineKind(n) = "obj" /\ delivered[n] = 2) => printed[n] = 1

\* C2 as amended: when the same bytes are delivered twice and the second
\* delivery finds their digest among the most recently used ones, the
\* record has been forwarded as often as one delivery forwards it: never
\* when it does not decode or validate or no pattern matches, otherwise
\* once per matching pattern (once without a filter).
C2_SecondDeliverySilent ==
  \A n \in LineNames :
    (delivered[n] = 2 /\ again[n] = 1) =>
      /\ printed[n] \in {0, Expected(n)}
      /\ LineKind(n) # "obj" => printed[n] = 0

\* C2 witness: bytes delivered twice, forwarded by the first delivery and
\* skipped as a duplicate by the second
C2_Witness ==
  /\ ev.kind = "line"
  /\ ev.dup
  /\ ~ev.tok.mangled
  /\ delivered[ev.tok.src] = 2
  /\ again[ev.tok.src] = 1
  /\ printed[ev.tok.src] = 1

\* the lines of the output files on disk
DiskLines == Range(files[Rotated]) \cup Range(files[Live])

DiskLineCount == Len(files[Rotated]) + Len(files[Live])

SetMax(S) == IF S = {} THEN 0 ELSE CHOOSE x \in S : \A y \in S : y <= x

\* the maximum time over the parseable lines on disk
MaxDiskTime == SetMax({DecodedTime(b) : b \in {x \in DiskLines : UnmarshalOK(x)}})

\* C3: for any configured log path, when loadState has returned over a
\* readable directory whose files could be opened and read (and hold no
\* more lines than the cache has room for), it returned the maximum time of
\* the parseable lines and the cache holds the digest of every line.
C3_RecoveryComplete ==
  (pc = "main" /\ dir = "ok" /\ ~ioFault /\ DiskLineCount <= dedupCacheElements) =>
    /\ lastTime = MaxDiskTime
    /\ \A b \in DiskLines : Sum256(b) \in Range(lruCache)

\* C4: no failure of the directory walk is fatal: the process never dies
\* in loadState.
C4_RecoveryNeverFatal == pc # "panicked"

\* C6: a new record whose bytes after augmentation are not well-formed
\* JSON gives exactly one "invalid record" log entry and no emission.
C6_InvalidLoggedOnce ==
  (ev.kind = "line" /\ ~ev.dup /\ ~ValidateOK(Augment(ev.tok, ev.out))) =>
    /\ ev.invalid = 1
    /\ ev.prints = <<>>

\* C7: a new record whose augmented bytes are valid JSON is emitted once
\* with an empty filter set; with the filter set {A}, once if A matches its
\* text and not at all otherwise.
C7_ValidEmittedOnce ==
  (/\ ev.kind = "line"
   /\ ~ev.dup
   /\ ValidateOK(Augment(ev.tok, ev.out))
   /\ Len(cfg.FilterExpression) <= 1) =>
    Len(ev.prints) =
      IF cfg.FilterExpression = <<>> \/ MatchString(cfg.FilterExpression[1], ev.tok) THEN 1 ELSE 0

\* C8: when a line is emitted, every configured destination whose own
\* write does not fail receives it.
C8_FanOutIndependent ==
  (ev.kind = "line" /\ ev.prints # <<>>) =>
    (Range(logWriters) \ ev.fails) \subseteq ev.got

\* C9: after a restart whose recovery read the output file, a record that
\* has output in that file and is returned again with the same bytes is not
\* emitted again (no digest having been evicted since the restart).
C9_NoReemission ==
  (/\ ev.kind = "line"
   /\ restarts > 0
   /\ Live \in loaded
   /\ ~loadErr
   /\ Len(used) <= dedupCacheElements
   /\ ~ev.tok.mangled
   /\ ev.tok.src \in before) =>
    ev.prints = <<>>

Max(a, b) == IF a > b THEN a ELSE b

\* C11 as stated: in every cycle that queries with the tracked timestamp
\* unset, also a later one, the window is the hour before the query.
C11_FreshLookback ==
  (ev.kind = "query" /\ lastTime = 0) => st = et - defaultLookback

\* C11 as amended: while the tracked timestamp is unset the window start is
\* carried over from cycle to cycle: it is one hour before the instant the
\* process read before its loop, raised to four hours before the query
\* once that is later.
C11_CarriedStart ==
  (Queried /\ lastTime = 0) => st = Max(T0 - defaultLookback, et - maxLookback)

\* C11 witness: a second or later query with the tracked timestamp unset,
\* whose window still starts one hour before the start of the process
C11_Witness ==
  /\ ev.kind = "query"
  /\ lastTime = 0
  /\ queries >= 2
  /\ et > T0
  /\ st = T0 - defaultLookback

\* C12: a query that returns an error ends its cycle: the tracked
\* timestamp, the dedup cache, the emitted lines and the output files are
\* as before the query, and the loop is back at its top, where the
\* inter-cycle sleep comes before the next query.
C12_QueryErrorEndsCycle ==
  [][(queries' = queries + 1 /\ ~ev'.ok) =>
       /\ lastTime' = lastTime
       /\ lruCache' = lruCache
       /\ printed' = printed
       /\ files' = files
       /\ pc' = "top"
       /\ ~startingUp']_vars

\* C12 witness: a query failed in a process that holds a tracked timestamp
\* and a non-empty cache, and the loop is at its top
C12_Witness ==
  /\ ev.kind = "query"
  /\ ~ev.ok
  /\ pc = "top"
  /\ lastTime > 0
  /\ lruCache # <<>>
  /\ queries >= 2

IsPrefix(a, b) == Len(a) <= Len(b) /\ SubSeq(b, 1, Len(a)) = a

\* C13: every cycle comes to its end, whatever happened in it (lines that
\* fail to decode or to validate, a read error of the stream, a query
\* error), and from the end of a cycle the loop sleeps and issues the next
\* query (as long as the budget of the model allows one); what was emitted
\* stays in the output file.
C13_LoopGoesOn ==
  /\ (pc = "scan") ~> (pc = "top")
  /\ (pc = "top" /\ ~startingUp /\ work < MaxWork) ~> (pc = "query" /\ sleeps = queries)
  /\ (pc = "query" /\ work < MaxWork) ~> (ev.kind = "query" /\ sleeps = queries - 1)
  /\ [][IsPrefix(files[Live], files'[Live]) /\ \A n \in LineNames : printed'[n] >= printed[n]]_vars

\* C13 witness: in a second or later cycle a record was emitted, the stream
\* then failed, and the loop is back at its top with the line in the file
C13_Witness ==
  /\ ev.kind = "end"
  /\ ev.err
  /\ pc = "top"
  /\ queries >= 2
  /\ Len(files[Live]) > 0
  /\ \E n \in LineNames : printed[n] > 0

\* C14: a new line whose time field cannot be decoded leaves the tracked
\* timestamp as it was and goes on through the pipeline: it is emitted when
\* its bytes are valid JSON and pass the filter, or logged as an invalid
\* record when they are not.
C14_BadTimeStillProcessed ==
  [][(/\ work' = work + 1
      /\ ev'.kind = "line"
      /\ ~ev'.dup
      /\ ~ev'.tok.mangled
      /\ LineKind(ev'.tok.src) = "badtime") =>
       /\ lastTime' = lastTime
       /\ IF ValidateOK(Augment(ev'.tok, ev'.out))
            THEN Len(ev'.prints) = Expected(ev'.tok.src)
          ELSE ev'.invalid = 1]_vars

\* the patterns of the filter set that match the text of b
Matching(reg, b) == {i \in 1..Len(reg) : MatchString(reg[i], b)}

\* C15: with a non-empty filter set, a new record whose augmented bytes are
\* valid JSON is emitted as many times as patterns of the set match its
\* text.
C15_OncePerMatch ==
  (/\ ev.kind = "line"
   /\ ~ev.dup
   /\ ValidateOK(Augment(ev.tok, ev.out))
   /\ Len(cfg.FilterExpression) > 0) =>
    Len(ev.prints) = Cardinality(Matching(cfg.FilterExpression, ev.tok))

\* C16: whenever loadState returned an error, the main loop starts with an
\* empty dedup cache and a zero tracked timestamp.
C16_FailedRecoveryLeavesNothing ==
  (pc \in {"main", "top"} /\ loadErr) => (lruCache = <<>> /\ lastTime = 0)

\* C17: the first query of the process follows no sleep and every later
\* query follows exactly one more sleep, of at least requestDelay, whatever
\* the outcome of the cycle before it.
C17_OneSleepPerLaterQuery ==
  /\ pc = "query" => sleeps = queries
  /\ (pc # "query" /\ queries >= 1) => sleeps = queries - 1
  /\ queries = 0 => sleeps = 0
  /\ prevEt # 0 => et - prevEt >= requestDelay

\* C17 witness: the second cycle ended on a read error of its stream and
\* the loop has slept a second time before its third query
C17_Witness ==
  /\ pc = "query"
  /\ ev.kind = "end"
  /\ ev.err
  /\ queries = 2
  /\ sleeps = 2

\* C18: a refresh, at whatever point of the main loop it happens and
\* whether it succeeds or fails, leaves the dedup cache, the tracked
\* timestamp and the position of the main loop as they are, and the
\* goroutine goes back to waiting for its next tick.
C18_RefreshIsolated ==
  [][refreshes' = refreshes + 1 =>
       /\ lruCache' = lruCache
       /\ lastTime' = lastTime
       /\ used' = used
       /\ pc' = pc
       /\ refreshPc' = "waiting"]_vars

\* C18 witness: a refresh has just failed in the middle of a response
\* stream, in a process with a tracked timestamp and a filled cache, after
\* an earlier refresh
C18_Witness ==
  /\ refreshErr
  /\ refreshes = 2
  /\ pc = "scan"
  /\ ev.kind = "line"
  /\ lastTime > 0
  /\ lruCache # <<>>

\* C19: when no record carried a time later than the end of the window
\* that returned it and less than maxLookback passed between two
\* consecutive queries, the later window starts no later than the earlier
\* one ended, also after a query error and with the tracked timestamp
\* unset.
C19_NoGap ==
  (prevEt # 0 /\ ~late /\ et - prevEt < maxLookback) => st <= prevEt

\* C19 witness: more than the default lookback but less than maxLookback
\* passed since a query that failed, the tracked timestamp is set, and the
\* next window reaches back to the end of the earlier one
C19_Witness ==
  /\ ev.kind = "query"
  /\ prevEt # 0
  /\ ~late
  /\ et - prevEt > defaultLookback
  /\ et - prevEt < maxLookback
  /\ lastTime > 0
  /\ st <= prevEt

\* C20: every line emitted for a record carries at most one appended
\* linkback annotation, all lines emitted for it are the same bytes, and
\* with linkback disabled and no linkback field in the record they are the
\* augmented record itself.
C20_SingleAnnotation ==
  (ev.kind = "line" /\ ev.prints # <<>>) =>
    /\ \A i \in 1..Len(ev.prints) : ev.prints[i].lb <= 1
    /\ \A i, j \in 1..Len(ev.prints) : ev.prints[i] = ev.prints[j]
    /\ (~cfg.Linkback /\ ~HasLinkback(Augment(ev.tok, ev.out))) =>
         \A i \in 1..Len(ev.prints) : ev.prints[i] = Augment(ev.tok, ev.out)

====
